---------------------------- MODULE Spec2Model ----------------------------
(***************************************************************************)
(* A state-machine model of the OPC UA adapter of lewis                    *)
(* (src/lewis/adapters/opcua.py): the lifecycle (start_server,             *)
(* stop_server), the address space builder (_add_properties,               *)
(* _add_methods), the callbacks the transport invokes (write_callback,     *)
(* method_wrapper) and the update thread (_update_variables).              *)
(*                                                                         *)
(* Threads: one owner (start/stop), the transport (write callbacks and     *)
(* method calls), the update threads, and the simulation that changes the  *)
(* device.  The device (the "interface") is external: a set of data        *)
(* attributes with values and a set of callables.                          *)
(***************************************************************************)
EXTENDS Integers, Sequences, FiniteSets, TLC

(***************************************************************************)
(* Bounds of the model.                                                    *)
(***************************************************************************)
\* data values are 0..MaxVal (0 stands for the device's default value)
MaxVal == 1
\* number of update-thread slots (threads alive at the same time)
MaxPollers == 2

Values == 0..MaxVal
PollerIds == 1..MaxPollers

(***************************************************************************)
(* The device interface.  dir(interface) lists attribute names in sorted   *)
(* order; '_' sorts before lower-case letters.                             *)
(***************************************************************************)
DirUniverse == << "_cal", "_raw", "power", "reset", "set_temperature", "temperature" >>

DataNames == {"_raw", "power", "temperature"}
MethodNames == {"_cal", "reset", "set_temperature"}
\* property.startswith('_')
StartsWithUnderscore(name) == name \in {"_cal", "_raw"}

\* number of positional parameters of a device callable (self excluded)
Arity(m) == IF m = "set_temperature" THEN 1 ELSE 0

VARIABLES
    dev,              \* the device's data attributes: name -> value
    methods,          \* the device's callable attributes (names)
    opaque,           \* callables whose registration raises (inspect.signature fails)
    options,          \* self._options: [exclude_properties, read_only_properties, security]
    adapter_attrs,    \* names among {"_option", "_update_variables"} that resolve on self
    server,           \* self._server: "none" or "server"
    running,          \* self._running
    nodes,            \* self._nodes: property -> [value, writeable, callback]
    property_values,  \* self._property_values: property -> value
    method_nodes,     \* method nodes registered on self._server
    method_name,      \* the closure variable method_name shared by the method wrappers
    update_thread,    \* self._update_thread: 0 (None) or an update-thread id
    stop_event,       \* self._stop_event.is_set()
    pollers,          \* the update threads: id -> [pc, todo, live]
    lock,             \* holder of device_lock: [kind, id], kind "none", "transport" or "poller"
    owner,            \* where the owner is: "idle" or "joining" (inside stop_server)
    call,             \* the method call in flight: [state, node, callee, args]
    ev,               \* the last operation and what its caller observed
    hist              \* history: [life, written] (see History below)

vars == << dev, methods, opaque, options, adapter_attrs, server, running, nodes,
           property_values, method_nodes, method_name, update_thread, stop_event,
           pollers, lock, owner, call, ev, hist >>

deviceVars == << dev, methods, opaque, options, adapter_attrs >>
bridgeVars == << server, running, nodes, property_values, method_nodes, method_name,
                 update_thread, stop_event >>

(***************************************************************************)
(* Helpers on functions used as Python dicts.                              *)
(***************************************************************************)
EmptyDict == << >>

\* d[k] = v on a dict
DictSet(d, k, v) == [x \in (DOMAIN d) \cup {k} |-> IF x = k THEN v ELSE d[x]]

\* d.update(e)
DictUpdate(d, e) == [x \in (DOMAIN d) \cup (DOMAIN e) |-> IF x \in DOMAIN e THEN e[x] ELSE d[x]]

\* dir(self.interface): the names present, in sorted order
Present == (DOMAIN dev) \cup methods
IsPresent(name) == name \in Present
Dir == SelectSeq(DirUniverse, IsPresent)

\* callable(getattr(self.interface, name))
IsCallable(name) == name \in methods

Range(s) == {s[i] : i \in DOMAIN s}

(***************************************************************************)
(* Address space builder.                                                  *)
(***************************************************************************)
\* (variant: the exclude_properties option is not looked at)
ExposedProperty_IgnoresExclude(name) ==
    ~ ( StartsWithUnderscore(name) \/ IsCallable(name) )

\* _add_properties, the filter: excluded, internal and callable names are skipped
ExposedProperty(name) ==
    ~ ( name \in options.exclude_properties
        \/ StartsWithUnderscore(name)
        \/ IsCallable(name) )

\* (variant: every node is writeable)
Writeable_Always(name) == TRUE

\* writeable = property not in self._options.read_only_properties
Writeable(name) == name \notin options.read_only_properties

\* "if writeable:" a write callback is made for the property and set on the node
HasCallback(name) == Writeable(name)

\* the variable node made for one property: initial value, writeable flag, callback
MakeNode(name) ==
    [value |-> dev[name], writeable |-> Writeable(name), callback |-> HasCallback(name)]

ExposedProperties == {name \in Range(Dir) : ExposedProperty(name)}

\* self._nodes after _add_properties ran over dir(self.interface)
AddPropertiesNodes == DictUpdate(nodes, [name \in ExposedProperties |-> MakeNode(name)])

\* (variant: a value already stored is kept, as with dict.setdefault)
AddPropertiesValues_KeepsOld ==
    DictUpdate([name \in ExposedProperties |-> dev[name]], property_values)

\* self._property_values after _add_properties: the value read for the node
AddPropertiesValues == DictUpdate(property_values, [name \in ExposedProperties |-> dev[name]])

\* _add_methods, the filter: properties and internal names are skipped
PublicMethod(name) == ~ ( ~ IsCallable(name) \/ StartsWithUnderscore(name) )

\* inspect.signature or add_method raised: the except clause logs and goes on
RegistrationFails(name) == name \in opaque

\* (variant: the first registration that raises ends the loop)
AddMethodsNodes_StopsAtFailure ==
    {Dir[j] : j \in {i \in DOMAIN Dir :
                        /\ PublicMethod(Dir[i])
                        /\ \A k \in 1..i : ~ (PublicMethod(Dir[k]) /\ RegistrationFails(Dir[k]))}}

\* the method nodes added to the device node
AddMethodsNodes == {name \in Range(Dir) : PublicMethod(name) /\ ~ RegistrationFails(name)}

\* the value of the loop variable method_name when _add_methods returns: every
\* wrapper made in the loop reads this one variable when it is called
LoopVariableAtExit == IF Dir = << >> THEN "none" ELSE Dir[Len(Dir)]

(***************************************************************************)
(* _get_ua_data_type.  A Python value is [kind, elems]: kind is the name   *)
(* of its class, elems the classes of the elements of a list.              *)
(***************************************************************************)
\* longest list classified
MaxLen == 3

ElementKinds == {"bool", "int", "float", "str", "NoneType"}

ScalarValues == {[kind |-> k, elems |-> << >>] : k \in ElementKinds}

ListValues ==
    {[kind |-> "list", elems |-> e] : e \in UNION {[1..n -> ElementKinds] : n \in 0..MaxLen}}

PyValues == ScalarValues \cup ListValues

\* isinstance(x, cls) on the class of x: bool is a subclass of int
IsInstance(kind, cls) == kind = cls \/ (kind = "bool" /\ cls = "int")

\* all(isinstance(x, cls) for x in value)
AllInstances(elems, cls) == \A i \in DOMAIN elems : IsInstance(elems[i], cls)

\* all(isinstance(x, float) for x in value or isinstance(x, int) for x in value):
\* a generator with two for clauses, the first over "value or ..." (value, which
\* is not empty here), the second over value; the condition is on the inner x
AllFloatNested(elems) ==
    \A i \in DOMAIN elems : \A j \in DOMAIN elems : IsInstance(elems[j], "float")

\* the list branch
ListDataType(elems) ==
    IF AllInstances(elems, "bool") THEN "Boolean"
    ELSE IF AllInstances(elems, "int") THEN "Int64"
    ELSE IF AllFloatNested(elems) THEN "Double"
    ELSE "Variant"

\* (variant: int is tested before bool)
GetUaDataType_IntFirst(value) ==
    IF IsInstance(value.kind, "int") THEN "Int64"
    ELSE IF IsInstance(value.kind, "bool") THEN "Boolean"
    ELSE IF IsInstance(value.kind, "float") THEN "Double"
    ELSE IF IsInstance(value.kind, "str") THEN "String"
    ELSE IF IsInstance(value.kind, "list") THEN ListDataType(value.elems)
    ELSE "Variant"

GetUaDataType(value) ==
    IF IsInstance(value.kind, "bool") THEN "Boolean"
    ELSE IF IsInstance(value.kind, "int") THEN "Int64"
    ELSE IF IsInstance(value.kind, "float") THEN "Double"
    ELSE IF IsInstance(value.kind, "str") THEN "String"
    ELSE IF IsInstance(value.kind, "list") THEN ListDataType(value.elems)
    ELSE "Variant"

(***************************************************************************)
(* Update threads.                                                         *)
(***************************************************************************)
DeadPoller == [pc |-> "dead", todo |-> << >>, live |-> FALSE]

Alive(i) == pollers[i].pc # "dead"

AlivePollers == {i \in PollerIds : Alive(i)}

FreeSlots == PollerIds \ AlivePollers

\* an update thread that iterates a dict of nodes that self._nodes no longer
\* holds keeps the old node objects
Detach(ps) == [i \in PollerIds |-> [ps[i] EXCEPT !.live = FALSE]]

(***************************************************************************)
(* What the caller of the last operation observed.                         *)
(***************************************************************************)
\* op: the operation; outcome: how it ended; transport: what start_server did to
\* the transport; name: the node; callee: the device callable invoked; args: the
\* arguments; result: the value handed back to the transport; after_write: an
\* update thread looked at a property for the first time since a protocol write
Event(op, outcome) ==
    [op |-> op, outcome |-> outcome, transport |-> "none", name |-> "none",
     callee |-> "none", args |-> << >>, result |-> << >>, after_write |-> FALSE]

StartEvent(outcome, transport) == [Event("start", outcome) EXCEPT !.transport = transport]

NoCall == [state |-> "idle", node |-> "none", callee |-> "none", args |-> << >>]

(***************************************************************************)
(* History.  life: "fresh" until stop_server has run to its end once,      *)
(* "stopped" from then until the next start_server that gets past its      *)
(* first line, "restarted" after that.  written: the properties a protocol *)
(* write has set, whose device value has not changed since and that no     *)
(* update thread has looked at since.                                      *)
(***************************************************************************)
StartHistory == [hist EXCEPT !.life = IF @ = "fresh" THEN "fresh" ELSE "restarted"]

StopHistory == [life |-> "stopped", written |-> {}]

Forget(names) == [hist EXCEPT !.written = @ \ names]

PollEvent(outcome, p) ==
    [Event("poll", outcome) EXCEPT !.name = p, !.after_write = (p \in hist.written)]

\* the data attributes whose value differs between two device states
Differing(d, e) ==
    {name \in (DOMAIN d) \cup (DOMAIN e) :
        IF name \in DOMAIN d /\ name \in DOMAIN e THEN d[name] # e[name] ELSE TRUE}

(***************************************************************************)
(* device_lock.                                                            *)
(***************************************************************************)
Free == [kind |-> "none", id |-> 0]
ByTransport == [kind |-> "transport", id |-> 0]
ByPoller(i) == [kind |-> "poller", id |-> i]

(***************************************************************************)
(* Initial states: a device, a configuration, and the adapter after        *)
(* __init__.                                                               *)
(***************************************************************************)
\* every device over the universe of names, every configuration over its
\* public data names
DeviceShapes ==
    { [data |-> d, methods |-> m] : d \in SUBSET DataNames, m \in SUBSET MethodNames }

\* the options of default_options that start_server tests before it applies
\* security; options.security is the set of those given a value that the test
\* takes as set (not 'None' for the mode and the policy, a path for the files)
SecurityFields == {"security_mode", "security_policy", "certificate", "private_key"}

OptionChoices ==
    { [exclude_properties |-> e, read_only_properties |-> r, security |-> {}] :
        e \in SUBSET {"power", "temperature"}, r \in SUBSET {"power", "temperature"} }

\* the devices and configurations the update threads are explored with: the
\* example device with two internal members, and a device whose last name in
\* dir() is a callable
ScenarioShapes ==
    { [data |-> DataNames, methods |-> MethodNames],
      [data |-> {"power"}, methods |-> {"reset", "set_temperature"}] }

ScenarioOptions ==
    { [exclude_properties |-> {}, read_only_properties |-> {"temperature"}, security |-> {}] }

\* every choice of the security options, for a device of one property and one
\* callable
SecurityShapes == { [data |-> {"power"}, methods |-> {"reset"}] }

SecurityOptions ==
    { [exclude_properties |-> {}, read_only_properties |-> {}, security |-> sec] :
        sec \in SUBSET SecurityFields }

\* The adapter after __init__, for a device and a configuration.
\* adapter_attrs: start_server reads self._option (the options are stored in
\* self._options) and self._update_variables (defined inside stop_server, not
\* on the class).  Whether either name resolves on self depends on the base
\* class Adapter alone, so it is a choice of the initial state: where a name
\* does not resolve the read raises AttributeError; where both resolve, the
\* update thread runs the loop of _update_variables as written.
InitWith(shapes, choices, attrs, failing) ==
    /\ \E shape \in shapes :
          /\ dev = [name \in shape.data |-> 0]
          /\ methods = shape.methods
          /\ opaque \in SUBSET (shape.methods \cap failing)
    /\ options \in choices
    /\ adapter_attrs \in attrs
    /\ server = "none"
    /\ running = FALSE
    /\ nodes = EmptyDict
    /\ property_values = EmptyDict
    /\ method_nodes = {}
    /\ method_name = "none"
    /\ update_thread = 0
    /\ stop_event = FALSE
    /\ pollers = [i \in PollerIds |-> DeadPoller]
    /\ lock = Free
    /\ owner = "idle"
    /\ call = NoCall
    /\ ev = Event("init", "none")
    /\ hist = [life |-> "fresh", written |-> {}]

Init == InitWith(ScenarioShapes, ScenarioOptions, SUBSET {"_option", "_update_variables"}, {})

\* the same adapter under every choice of the security options
InitSecurity ==
    InitWith(SecurityShapes, SecurityOptions, SUBSET {"_option", "_update_variables"}, {})

\* devices with any of the callables, each of which may fail to register
RegistrationShapes == { [data |-> {"power"}, methods |-> m] : m \in SUBSET MethodNames }

InitRegistration ==
    InitWith(RegistrationShapes, ScenarioOptions, SUBSET {"_option"},
             {"reset", "set_temperature"})

\* every device and configuration, the update thread not starting
InitAnyDevice == InitWith(DeviceShapes, OptionChoices, SUBSET {"_option"}, {"reset"})

(***************************************************************************)
(* start_server.                                                           *)
(***************************************************************************)
\* (variant: the guard is missing)
AlreadyRunning_Never == FALSE

\* "if self._running: return"
AlreadyRunning == running

\* start_server on a running adapter returns at once
StartNoop ==
    /\ owner = "idle"
    /\ AlreadyRunning
    /\ ev' = StartEvent("noop", "not_started")
    /\ UNCHANGED << deviceVars, bridgeVars, pollers, lock, owner, call, hist >>

\* self._option.security_mode: the name _option does not resolve and the
\* AttributeError leaves start_server right after the Server was created
StartOptionError ==
    /\ owner = "idle"
    /\ ~ AlreadyRunning
    /\ "_option" \notin adapter_attrs
    /\ server' = "server"
    /\ method_nodes' = {}
    /\ ev' = StartEvent("AttributeError", "not_started")
    /\ hist' = StartHistory
    /\ UNCHANGED << deviceVars, running, nodes, property_values, method_name,
                    update_thread, stop_event, pollers, lock, owner, call >>

\* "if (security_mode != 'None' and security_policy != 'None' and certificate
\* and private_key)"
SecurityConfigured == \A field \in SecurityFields : field \in options.security

\* the Server after lines 101-117: with the certificate, the key and the
\* security policy set on it, or without
NewServer == IF SecurityConfigured THEN "secured" ELSE "server"

\* lines 101-131: a new Server, the nodes of the properties and of the methods
Build ==
    /\ server' = NewServer
    /\ nodes' = AddPropertiesNodes
    /\ property_values' = AddPropertiesValues
    /\ method_nodes' = AddMethodsNodes
    /\ method_name' = LoopVariableAtExit

\* (variant: _running is set before the transport is started)
StartTransportError_Running ==
    /\ owner = "idle"
    /\ ~ AlreadyRunning
    /\ "_option" \in adapter_attrs
    /\ Build
    /\ running' = TRUE
    /\ pollers' = Detach(pollers)
    /\ ev' = StartEvent("TransportError", "failed")
    /\ hist' = StartHistory
    /\ UNCHANGED << deviceVars, update_thread, stop_event, lock, owner, call >>

\* self._server.start() raises: the error leaves start_server
StartTransportError ==
    /\ owner = "idle"
    /\ ~ AlreadyRunning
    /\ "_option" \in adapter_attrs
    /\ Build
    /\ pollers' = Detach(pollers)
    /\ ev' = StartEvent("TransportError", "failed")
    /\ hist' = StartHistory
    /\ UNCHANGED << deviceVars, running, update_thread, stop_event, lock, owner, call >>

\* lines 134-138: the transport started
Started ==
    /\ running' = TRUE
    /\ stop_event' = FALSE

\* threading.Thread(target=self._update_variables): the name does not resolve
\* (the function is local to stop_server) and the AttributeError leaves start_server
StartThreadError ==
    /\ owner = "idle"
    /\ ~ AlreadyRunning
    /\ "_option" \in adapter_attrs
    /\ "_update_variables" \notin adapter_attrs
    /\ Build
    /\ Started
    /\ pollers' = Detach(pollers)
    /\ ev' = StartEvent("AttributeError", "started")
    /\ hist' = StartHistory
    /\ UNCHANGED << deviceVars, update_thread, lock, owner, call >>

\* lines 139-143: the update thread is created and started
Spawn(i) ==
    /\ update_thread' = i
    /\ pollers' = [Detach(pollers) EXCEPT ![i] = [pc |-> "check", todo |-> << >>, live |-> FALSE]]

\* start_server runs to its end
StartOk ==
    /\ owner = "idle"
    /\ ~ AlreadyRunning
    /\ "_option" \in adapter_attrs
    /\ "_update_variables" \in adapter_attrs
    /\ FreeSlots # {}
    /\ Build
    /\ Started
    /\ Spawn(CHOOSE i \in FreeSlots : \A j \in FreeSlots : i <= j)
    /\ ev' = StartEvent("returned", "started")
    /\ hist' = StartHistory
    /\ UNCHANGED << deviceVars, lock, owner, call >>

(***************************************************************************)
(* stop_server.                                                            *)
(***************************************************************************)
\* (variant: the guard is missing)
NotRunning_Never == FALSE

\* "if not self._running: return"
NotRunning == ~ running

StopNoop ==
    /\ owner = "idle"
    /\ NotRunning
    /\ ev' = Event("stop", "noop")
    /\ UNCHANGED << deviceVars, bridgeVars, pollers, lock, owner, call, hist >>

\* self._stop_event.set(), then the owner joins the update thread
StopBegin ==
    /\ owner = "idle"
    /\ ~ NotRunning
    /\ stop_event' = TRUE
    /\ owner' = "joining"
    /\ ev' = Event("stop", "joining")
    /\ UNCHANGED << deviceVars, server, running, nodes, property_values, method_nodes,
                    method_name, update_thread, pollers, lock, call, hist >>

\* join(timeout=2.0) returns: the thread ended, or it is still blocked on the
\* device lock or inside node.set_value when the two seconds are over
JoinReturns ==
    IF update_thread = 0
    THEN TRUE
    ELSE ~ Alive(update_thread) \/ pollers[update_thread].pc \in {"acquire", "iter"}

\* lines 308-319: the rest of stop_server
StopFinish ==
    /\ owner = "joining"
    /\ JoinReturns
    /\ update_thread' = 0
    /\ server' = "none"
    /\ method_nodes' = {}
    /\ running' = FALSE
    /\ nodes' = EmptyDict
    /\ property_values' = EmptyDict
    /\ pollers' = Detach(pollers)
    /\ owner' = "idle"
    /\ ev' = Event("stop", "returned")
    /\ hist' = StopHistory
    /\ UNCHANGED << deviceVars, method_name, stop_event, lock, call >>

(***************************************************************************)
(* The callbacks the transport invokes while the server runs.              *)
(***************************************************************************)
\* the transport accepts protocol traffic between self._server.start() and
\* self._server.stop()
TransportUp == running

\* setattr(self.interface, property_name, val)
SetAttr(d, name, v) == DictSet(d, name, v)

\* (variant: the callback reads the loop variable, which holds the last name
\* of dir(self.interface) once the loop is over)
BoundPropertyName_LoopVariable(p) == method_name

\* make_callback(property): the callback of the node of p keeps its own
\* property_name
BoundPropertyName(p) == p

\* a protocol write of v to the node of property p: the transport invokes the
\* callback set on the node; write_callback takes the device lock, sets the
\* attribute, releases the lock and returns True
WriteCallback(p, v) ==
    /\ TransportUp
    /\ p \in DOMAIN nodes
    /\ nodes[p].callback
    /\ lock = Free
    /\ dev' = SetAttr(dev, BoundPropertyName(p), v)
    /\ hist' = [hist EXCEPT !.written = @ \cup {p}]
    /\ nodes' = [nodes EXCEPT ![p].value = v]
    /\ ev' = [Event("write", "returned") EXCEPT !.name = p, !.args = << v >>, !.result = << TRUE >>]
    /\ UNCHANGED << methods, opaque, options, adapter_attrs, server, running,
                    property_values, method_nodes, method_name, update_thread,
                    stop_event, pollers, lock, owner, call >>

\* getattr(self.interface, method_name): the name the wrapper of every node reads
Callee(node) == method_name

\* getattr(...)(*args) raises TypeError: the attribute is no callable, or the
\* number of arguments is not the callable's
CallTypeError(callee, args) == ~ IsCallable(callee) \/ Len(args) # Arity(callee)

ArgChoices == {<< >>} \cup {<< v >> : v \in Values}

CallEvent(outcome, node, callee, args, result) ==
    [Event("call", outcome) EXCEPT !.name = node, !.callee = callee, !.args = args,
                                   !.result = result]

\* a protocol call of a method node: method_wrapper takes the device lock and
\* the device callable starts to run
CallBegin(node, args) ==
    /\ TransportUp
    /\ node \in method_nodes
    /\ call.state = "idle"
    /\ lock = Free
    /\ ~ CallTypeError(Callee(node), args)
    /\ lock' = ByTransport
    /\ call' = [state |-> "running", node |-> node, callee |-> Callee(node), args |-> args]
    /\ ev' = CallEvent("running", node, Callee(node), args, << >>)
    /\ UNCHANGED << deviceVars, bridgeVars, pollers, owner, hist >>

\* the same, the call raising TypeError at once: the lock is released by the
\* with statement and the error goes to the transport
CallRejected(node, args) ==
    /\ TransportUp
    /\ node \in method_nodes
    /\ call.state = "idle"
    /\ lock = Free
    /\ CallTypeError(Callee(node), args)
    /\ ev' = CallEvent("TypeError", node, Callee(node), args, << >>)
    /\ UNCHANGED << deviceVars, bridgeVars, pollers, lock, owner, call, hist >>

\* the device's callables (src/lewis/examples/opcua_device): their effect on
\* the data attributes
MethodEffect(callee, args, d) ==
    CASE callee = "set_temperature" -> SetAttr(d, "temperature", args[1])
      [] callee = "reset" -> SetAttr(SetAttr(d, "temperature", 0), "power", 0)
      [] OTHER -> d

\* what the device callable returns, as the repr of the Python value
MethodResult(callee) ==
    CASE callee \in {"set_temperature", "reset"} -> "True"
      [] OTHER -> "None"

\* (variant: "return [result] if result else []")
WrapResult_IfTruthy(result) ==
    IF result \in {"None", "False", "0"} THEN << >> ELSE << result >>

\* "return [result] if result is not None else []"
WrapResult(result) == IF result # "None" THEN << result >> ELSE << >>

\* the device callable returns: the wrapper hands the result list back and the
\* with statement releases the lock
CallReturn ==
    /\ call.state = "running"
    /\ dev' = MethodEffect(call.callee, call.args, dev)
    /\ hist' = Forget(Differing(dev, dev'))
    /\ lock' = Free
    /\ call' = NoCall
    /\ ev' = CallEvent("returned", call.node, call.callee, call.args,
                       WrapResult(MethodResult(call.callee)))
    /\ UNCHANGED << methods, opaque, options, adapter_attrs, bridgeVars, pollers, owner >>

\* (variant: the lock is taken with acquire() and released after the call
\* only, not by a with statement)
CallRaise_KeepsLock ==
    /\ call.state = "running"
    /\ call' = NoCall
    /\ ev' = CallEvent("raised", call.node, call.callee, call.args, << >>)
    /\ UNCHANGED << deviceVars, bridgeVars, pollers, lock, owner, hist >>

\* the device callable raises: the with statement releases the lock and the
\* exception goes to the transport
CallRaise ==
    /\ call.state = "running"
    /\ lock' = Free
    /\ call' = NoCall
    /\ ev' = CallEvent("raised", call.node, call.callee, call.args, << >>)
    /\ UNCHANGED << deviceVars, bridgeVars, pollers, owner, hist >>

(***************************************************************************)
(* The simulation changes a public data attribute of the device (it holds  *)
(* the device lock while it does).                                         *)
(***************************************************************************)
DeviceChange(p, v) ==
    /\ p \in DOMAIN dev
    /\ ~ StartsWithUnderscore(p)
    /\ lock = Free
    /\ dev[p] # v
    /\ dev' = [dev EXCEPT ![p] = v]
    /\ hist' = Forget({p})
    /\ ev' = [Event("change", "returned") EXCEPT !.name = p]
    /\ UNCHANGED << methods, opaque, options, adapter_attrs, bridgeVars, pollers,
                    lock, owner, call >>

(***************************************************************************)
(* _update_variables, one update thread i.                                 *)
(***************************************************************************)
\* "while not self._stop_event.is_set() and self._running and self.interface"
LoopCondition == ~ stop_event /\ running

PollCheck(i) ==
    /\ pollers[i].pc = "check"
    /\ pollers' = [pollers EXCEPT ![i].pc = IF LoopCondition THEN "acquire" ELSE "dead"]
    /\ ev' = Event("poll", "none")
    /\ UNCHANGED << deviceVars, bridgeVars, lock, owner, call, hist >>

\* self._nodes.items(), in the order the properties were added
NodeItems == SelectSeq(DirUniverse, LAMBDA name : name \in DOMAIN nodes)

\* "with self.device_lock:" then the for loop starts over self._nodes.items()
PollAcquire(i) ==
    /\ pollers[i].pc = "acquire"
    /\ lock = Free
    /\ lock' = ByPoller(i)
    /\ pollers' = [pollers EXCEPT ![i] =
                      [pc |-> IF NodeItems = << >> THEN "wait" ELSE "iter",
                       todo |-> NodeItems, live |-> TRUE]]
    /\ ev' = Event("poll", "none")
    /\ UNCHANGED << deviceVars, bridgeVars, owner, call, hist >>

\* the thread after the property at the head of its todo list
Advance(poller) ==
    [pc |-> IF Len(poller.todo) = 1 THEN "wait" ELSE "iter",
     todo |-> Tail(poller.todo),
     live |-> poller.live]

\* (variant: every property counts as changed in every cycle)
HasChanged_Always(p) == TRUE

\* "if property not in self._property_values or self._property_values[property] != current_value"
HasChanged(p) ==
    IF p \notin DOMAIN property_values THEN TRUE ELSE property_values[p] # dev[p]

\* the property at the head is unchanged (or gone from the device): next one
PollSkip(i) ==
    /\ pollers[i].pc = "iter"
    /\ LET p == Head(pollers[i].todo) IN
          /\ IF p \in DOMAIN dev THEN ~ HasChanged(p) ELSE TRUE
          /\ pollers' = [pollers EXCEPT ![i] = Advance(pollers[i])]
          /\ ev' = PollEvent("skipped", p)
          /\ hist' = Forget({p})
    /\ UNCHANGED << deviceVars, bridgeVars, lock, owner, call >>

\* node.set_value(current_value) on the node object the thread iterates
SetValue(i, p, v) ==
    IF pollers[i].live /\ p \in DOMAIN nodes
    THEN [nodes EXCEPT ![p].value = v]
    ELSE nodes

\* the property at the head has changed: push it to its node and store it
PollPush(i) ==
    /\ pollers[i].pc = "iter"
    /\ LET p == Head(pollers[i].todo) IN
          /\ p \in DOMAIN dev
          /\ HasChanged(p)
          /\ nodes' = SetValue(i, p, dev[p])
          /\ property_values' = DictSet(property_values, p, dev[p])
          /\ pollers' = [pollers EXCEPT ![i] = Advance(pollers[i])]
          /\ ev' = PollEvent("pushed", p)
          /\ hist' = Forget({p})
    /\ UNCHANGED << deviceVars, server, running, method_nodes, method_name,
                    update_thread, stop_event, lock, owner, call >>

\* (variant: the value is stored before node.set_value is called)
PollPushFails_Stores(i) ==
    /\ pollers[i].pc = "iter"
    /\ LET p == Head(pollers[i].todo) IN
          /\ p \in DOMAIN dev
          /\ HasChanged(p)
          /\ property_values' = DictSet(property_values, p, dev[p])
          /\ pollers' = [pollers EXCEPT ![i] = Advance(pollers[i])]
          /\ ev' = PollEvent("push_failed", p)
          /\ hist' = Forget({p})
    /\ UNCHANGED << deviceVars, server, running, nodes, method_nodes, method_name,
                    update_thread, stop_event, lock, owner, call >>

\* the same, node.set_value raising: the warning is logged, nothing is stored
PollPushFails(i) ==
    /\ pollers[i].pc = "iter"
    /\ LET p == Head(pollers[i].todo) IN
          /\ p \in DOMAIN dev
          /\ HasChanged(p)
          /\ pollers' = [pollers EXCEPT ![i] = Advance(pollers[i])]
          /\ ev' = PollEvent("push_failed", p)
          /\ hist' = Forget({p})
    /\ UNCHANGED << deviceVars, bridgeVars, lock, owner, call >>

\* self._stop_event.wait(update_interval) returns, inside the with block: the
\* lock is released after the wait and the loop condition is next
PollWake(i) ==
    /\ pollers[i].pc = "wait"
    /\ lock' = Free
    /\ pollers' = [pollers EXCEPT ![i].pc = "check"]
    /\ ev' = Event("poll", "none")
    /\ UNCHANGED << deviceVars, bridgeVars, owner, call, hist >>

(***************************************************************************)
(* The specification.                                                      *)
(***************************************************************************)
Next ==
    \/ StartNoop
    \/ StartOptionError
    \/ StartTransportError
    \/ StartThreadError
    \/ StartOk
    \/ StopNoop
    \/ StopBegin
    \/ StopFinish
    \/ \E p \in DataNames, v \in Values : WriteCallback(p, v)
    \/ \E node \in MethodNames, args \in ArgChoices : CallBegin(node, args)
    \/ \E node \in MethodNames, args \in ArgChoices : CallRejected(node, args)
    \/ CallReturn
    \/ CallRaise
    \/ \E p \in DataNames, v \in Values : DeviceChange(p, v)
    \/ \E i \in PollerIds : PollCheck(i)
    \/ \E i \in PollerIds : PollAcquire(i)
    \/ \E i \in PollerIds : PollSkip(i)
    \/ \E i \in PollerIds : PollPush(i)
    \/ \E i \in PollerIds : PollPushFails(i)
    \/ \E i \in PollerIds : PollWake(i)

Spec == Init /\ [][Next]_vars

\* Scheduling: every update thread that can take a step takes one, a thread
\* that finds device_lock free again and again gets it, a device callable
\* that was called ends, and a stop_server whose join can return goes on.
Fairness ==
    /\ \A i \in PollerIds :
          /\ WF_vars(PollCheck(i))
          /\ SF_vars(PollAcquire(i))
          /\ WF_vars(PollSkip(i) \/ PollPush(i) \/ PollPushFails(i))
          /\ WF_vars(PollWake(i))
    /\ WF_vars(CallReturn \/ CallRaise)
    /\ WF_vars(StopFinish)

FairSpec == Spec /\ Fairness

\* the steps of an adapter whose update thread never starts
NextAnyDevice ==
    \/ StartNoop
    \/ StartOptionError
    \/ StartTransportError
    \/ StartThreadError
    \/ StopNoop
    \/ StopBegin
    \/ StopFinish
    \/ \E p \in DataNames, v \in Values : WriteCallback(p, v)
    \/ \E node \in MethodNames, args \in ArgChoices : CallBegin(node, args)
    \/ \E node \in MethodNames, args \in ArgChoices : CallRejected(node, args)
    \/ CallReturn
    \/ CallRaise
    \/ \E p \in DataNames, v \in Values : DeviceChange(p, v)

SpecAnyDevice == InitAnyDevice /\ [][NextAnyDevice]_vars

SpecRegistration == InitRegistration /\ [][NextAnyDevice]_vars

\* the owner's operations and the update threads, with no protocol traffic
\* and a device that does not change
NextLifecycle ==
    \/ StartNoop
    \/ StartOptionError
    \/ StartTransportError
    \/ StartThreadError
    \/ StartOk
    \/ StopNoop
    \/ StopBegin
    \/ StopFinish
    \/ \E i \in PollerIds : PollCheck(i)
    \/ \E i \in PollerIds : PollAcquire(i)
    \/ \E i \in PollerIds : PollSkip(i)
    \/ \E i \in PollerIds : PollWake(i)

SpecSecurity == InitSecurity /\ [][NextLifecycle]_vars

(***************************************************************************)
(* The functions of the adapter that depend on their arguments only,       *)
(* applied to every argument of a bounded set.                             *)
(***************************************************************************)
\* what a device callable may return, as the repr of the Python value
ReturnValues == {"None", "True", "False", "0", "1", "''"}

\* data_type = self._get_ua_data_type(value)
Classify(value) ==
    /\ ev' = [Event("classify", "returned") EXCEPT !.args = << value >>,
                                                   !.result = << GetUaDataType(value) >>]
    /\ UNCHANGED << deviceVars, bridgeVars, pollers, lock, owner, call, hist >>

\* the last line of method_wrapper, for a result of the device callable
Wrap(result) ==
    /\ ev' = [Event("wrap", "returned") EXCEPT !.args = << result >>,
                                               !.result = WrapResult(result)]
    /\ UNCHANGED << deviceVars, bridgeVars, pollers, lock, owner, call, hist >>

InitFunctions == InitWith(ScenarioShapes, ScenarioOptions, {{}}, {})

NextFunctions ==
    \/ \E value \in PyValues : Classify(value)
    \/ \E result \in ReturnValues : Wrap(result)

SpecFunctions == InitFunctions /\ [][NextFunctions]_vars

(***************************************************************************)
(* Properties.                                                             *)
(***************************************************************************)
\* the names that start with an underscore
InternalNames == {"_cal", "_raw"}

\* the attributes of the device that are no callables, do not start with an
\* underscore and are not excluded by the configuration
ExpectedVariableNodes ==
    {name \in DOMAIN dev : name \notin InternalNames /\ name \notin options.exclude_properties}

\* the attributes of the device that are callables and do not start with an underscore
PublicCallables == {name \in methods : name \notin InternalNames}

\* the state right after a start_server call that started the transport
AfterStart == ev.op = "start" /\ ev.transport = "started"

\* C1: a start_server call on a stopped adapter whose transport starts returns
\* normally, with the adapter running, the stop event cleared and the update
\* thread it created alive.
C1_StartReturnsRunning ==
    AfterStart =>
        /\ ev.outcome = "returned"
        /\ running
        /\ ~ stop_event
        /\ update_thread \in AlivePollers

\* C2 (as claimed): after start_server the variable nodes are the public,
\* non-excluded data attributes and the method nodes are all the public callables.
C2_NodesAreAllPublicMembers ==
    AfterStart =>
        /\ DOMAIN nodes = ExpectedVariableNodes
        /\ method_nodes = PublicCallables

\* C2 (amended): after start_server the variable nodes are the public,
\* non-excluded data attributes and the method nodes are the public callables
\* whose registration did not raise.
C2_NodesAreRegisteredPublicMembers ==
    AfterStart =>
        /\ DOMAIN nodes = ExpectedVariableNodes
        /\ method_nodes = {name \in PublicCallables : name \notin opaque}

C2_Witness ==
    /\ AfterStart
    /\ "_raw" \in DOMAIN dev
    /\ "_cal" \in methods
    /\ options.exclude_properties \cap DOMAIN dev # {}
    /\ DOMAIN nodes # {}
    /\ method_nodes # {}
    /\ opaque # {}

\* C3: a node is writeable exactly when its property is not in
\* read_only_properties, it has a write callback exactly when it is writeable,
\* and no protocol write sets an attribute named in read_only_properties.
C3_WriteableIffNotReadOnly ==
    /\ \A p \in DOMAIN nodes :
          /\ nodes[p].writeable = (p \notin options.read_only_properties)
          /\ nodes[p].callback = nodes[p].writeable
    /\ ev.op = "write" => ev.name \notin options.read_only_properties

C3_Witness ==
    /\ ev.op = "write"
    /\ \E p \in DOMAIN nodes : ~ nodes[p].writeable /\ p \in options.read_only_properties
    /\ \E q \in DOMAIN nodes : nodes[q].writeable /\ nodes[q].callback

\* C4: from the return of stop_server until the next start_server the adapter
\* is stopped and the node map and the value cache are empty.
C4_StoppedStaysEmpty ==
    hist.life = "stopped" =>
        /\ ~ running
        /\ DOMAIN nodes = {}
        /\ DOMAIN property_values = {}

\* C5: a start_server after a stop_server builds the node map and the value
\* cache from the device as it is then: the properties are those of a first
\* start, and every node value and cached value is the device's value.
C5_RestartRebuildsFromDevice ==
    (AfterStart /\ hist.life = "restarted") =>
        /\ DOMAIN nodes = ExpectedVariableNodes
        /\ DOMAIN property_values = ExpectedVariableNodes
        /\ \A p \in ExpectedVariableNodes :
              /\ nodes[p].value = dev[p]
              /\ property_values[p] = dev[p]
              /\ nodes[p].writeable = (p \notin options.read_only_properties)

C5_Witness ==
    /\ AfterStart
    /\ hist.life = "restarted"
    /\ \E p \in DOMAIN nodes : dev[p] # 0 /\ property_values[p] = dev[p]

\* C6: start_server on a running adapter changes nothing: no new server, no
\* node, no update thread, the same node map, value cache and running flag.
C6_StartWhileRunningIsNoop ==
    [][ (running /\ ev'.op = "start") =>
            /\ ev'.outcome = "noop"
            /\ UNCHANGED << server, running, nodes, property_values, method_nodes,
                            method_name, update_thread, stop_event, pollers >> ]_vars

C6_Witness ==
    /\ ev.op = "start"
    /\ ev.outcome = "noop"
    /\ DOMAIN nodes # {}
    /\ update_thread \in AlivePollers

\* C7: stop_server on a stopped adapter returns without an error and changes
\* nothing: running flag, stop event, node map, value cache, server, update thread.
C7_StopWhileStoppedIsNoop ==
    [][ (~ running /\ ev'.op = "stop") =>
            /\ ev'.outcome = "noop"
            /\ UNCHANGED << server, running, nodes, property_values, method_nodes,
                            method_name, update_thread, stop_event, pollers >> ]_vars

C7_Witness ==
    /\ ev.op = "stop"
    /\ ev.outcome = "noop"
    /\ hist.life = "fresh"
    /\ server = "none"

\* C8: when the write callback of property p returns for value v, the device
\* attribute p is v, the callback returned True, and every other device
\* attribute is as it was.
C8_WriteSetsItsAttributeOnly ==
    [][ ev'.op = "write" =>
            /\ ev'.outcome = "returned"
            /\ ev'.result = << TRUE >>
            /\ DOMAIN dev' = (DOMAIN dev) \cup {ev'.name}
            /\ dev'[ev'.name] = ev'.args[1]
            /\ \A q \in (DOMAIN dev) \ {ev'.name} : dev'[q] = dev[q] ]_vars

C8_Witness ==
    /\ ev.op = "write"
    /\ ev.args = << 1 >>
    /\ dev[ev.name] = 1
    /\ \E q \in DOMAIN dev : q # ev.name /\ ~ q \in InternalNames

\* C9 (as claimed): the first time an update thread looks at a property after
\* a protocol write to it, the device value not having changed since, it finds
\* no change and pushes nothing.
C9_NoPushAfterWrite ==
    (ev.op = "poll" /\ ev.after_write) => ev.outcome = "skipped"

\* C9 (amended): the first time an update thread looks at a property after a
\* protocol write of v to it, the device value not having changed since, it
\* pushes nothing exactly when v is the value stored for the property (the
\* write callback does not store v); otherwise it pushes v to the node, and
\* stores v when the push did not raise.
C9_PushAfterWriteIffNotCached ==
    [][ (ev'.op = "poll" /\ ev'.name \in hist.written) =>
            LET p == ev'.name
                cached == IF p \in DOMAIN property_values
                          THEN property_values[p] = dev[p] ELSE FALSE
            IN  /\ dev' = dev
                /\ (ev'.outcome = "skipped") = cached
                /\ ev'.outcome = "pushed" =>
                      /\ property_values'[p] = dev[p]
                      /\ \A i \in PollerIds :
                            (pollers[i].pc = "iter" /\ pollers[i].live) => nodes'[p].value = dev[p]
                /\ ev'.outcome = "push_failed" => property_values' = property_values ]_vars

C9_Witness ==
    /\ ev.op = "poll"
    /\ ev.after_write
    /\ ev.outcome = "pushed"
    /\ running
    /\ property_values[ev.name] = dev[ev.name]
    /\ nodes[ev.name].value = dev[ev.name]

\* C10: a call of a method node invokes the device callable that has the
\* node's name, also when the device has several public callables.
C10_NodeInvokesItsOwnMethod ==
    ev.op = "call" => ev.callee = ev.name

\* C11: the call wrapper hands back a list holding the result when the device
\* callable returns a value that is not None (False and 0 included), and the
\* empty list when it returns None.
C11_WrapperListsNonNullResult ==
    ev.op = "wrap" =>
        LET result == ev.args[1] IN
            /\ result # "None" => ev.result = << result >>
            /\ result = "None" => ev.result = << >>

C11_Witness ==
    /\ ev.op = "wrap"
    /\ ev.args = << "False" >>
    /\ ev.result = << "False" >>

\* C12: every step in which the adapter reads, writes or calls the device is
\* taken by the thread that has device_lock: the builder of start_server, the
\* write callback and the method wrapper with the lock free for them or held
\* by them, an update thread while it holds the lock.
C12_DeviceAccessUnderLock ==
    [][ /\ (ev'.op = "start" /\ ev'.transport # "not_started") => lock = Free
        /\ ev'.op = "write" => lock = Free
        /\ (ev'.op = "call" /\ ev'.outcome = "returned") => lock = ByTransport
        /\ (ev'.op = "poll" /\ ev'.outcome # "none") =>
              \E i \in PollerIds : pollers'[i] # pollers[i] /\ lock = ByPoller(i) ]_vars

\* the classes of the elements of a list are all among kinds
ElementsAmong(elems, kinds) == \A i \in DOMAIN elems : elems[i] \in kinds

\* C13: a list is classified Boolean when all its elements are booleans, Int64
\* when all are integral, Double when all are numeric (integral or floating,
\* as in [1, 2.5]), and Variant otherwise (as in ["a", "b"]).
C13_ListClassification ==
    (ev.op = "classify" /\ ev.args[1].kind = "list") =>
        LET elems == ev.args[1].elems IN
            ev.result = << IF ElementsAmong(elems, {"bool"}) THEN "Boolean"
                           ELSE IF ElementsAmong(elems, {"bool", "int"}) THEN "Int64"
                           ELSE IF ElementsAmong(elems, {"bool", "int", "float"}) THEN "Double"
                           ELSE "Variant" >>

\* C14: a scalar is classified Boolean when it is a boolean, and never Int64;
\* Int64 when it is an integer that is no boolean, Double when it is a float,
\* String when it is text, and Variant when it is anything else but a list.
C14_ScalarClassification ==
    (ev.op = "classify" /\ ev.args[1].kind # "list") =>
        LET kind == ev.args[1].kind IN
            ev.result = << CASE kind = "bool" -> "Boolean"
                             [] kind = "int" -> "Int64"
                             [] kind = "float" -> "Double"
                             [] kind = "str" -> "String"
                             [] OTHER -> "Variant" >>

C14_Witness ==
    /\ ev.op = "classify"
    /\ ev.args[1].kind = "bool"
    /\ ev.result = << "Boolean" >>

\* C15: when the transport fails to start, start_server ends with the
\* transport's error, the adapter is not running afterwards and no update
\* thread was created.
C15_TransportFailurePropagates ==
    [][ (ev'.op = "start" /\ ev'.transport = "failed") =>
            /\ ev'.outcome = "TransportError"
            /\ ~ running'
            /\ update_thread' = 0
            /\ AlivePollers' \subseteq AlivePollers ]_vars

C15_Witness ==
    /\ ev.op = "start"
    /\ ev.transport = "failed"
    /\ ev.outcome = "TransportError"
    /\ hist.life = "restarted"
    /\ AlivePollers # {}

\* C16: start_server sets security on the server exactly when security_mode,
\* security_policy, certificate and private_key are all given; under every
\* other configuration a start_server call on a stopped adapter whose transport
\* starts returns normally with the adapter running and the server unsecured.
C16_SecurityIffAllFour ==
    (ev.op = "start" /\ ev.outcome # "noop" /\ ev.transport # "failed") =>
        /\ (server = "secured") = (options.security = SecurityFields)
        /\ options.security # SecurityFields =>
              /\ ev.outcome = "returned"
              /\ running

\* C17: an update thread that waits for the update interval between two
\* cycles does not hold device_lock.
C17_WaitsWithoutLock ==
    \A i \in PollerIds : pollers[i].pc = "wait" => lock # ByPoller(i)

\* C18: whenever the adapter is not running, the node map and the value cache
\* are empty, also after a start_server that failed after the nodes were built.
C18_NotRunningIsEmpty ==
    ~ running => (DOMAIN nodes = {} /\ DOMAIN property_values = {})

\* the adapter runs, tracks property p, and the device value of p is v
Tracked(p, v) == running /\ p \in DOMAIN nodes /\ p \in DOMAIN dev /\ dev[p] = v

\* the value stored for p is not v
NotCached(p, v) == IF p \in DOMAIN property_values THEN property_values[p] # v ELSE TRUE

\* the value stored for p and the value of the node of p are v
Agree(p, v) ==
    /\ p \in DOMAIN property_values
    /\ property_values[p] = v
    /\ p \in DOMAIN nodes
    /\ nodes[p].value = v

\* C19: while the adapter runs, when the device value v of a tracked property
\* p is not the value stored for p, then the value stored for p and the value
\* of the node of p become v, unless the adapter stops, the device value of p
\* changes again or a push to the node of p fails.
C19_ChangeIsEventuallyPushed ==
    \A p \in {"power", "temperature"}, v \in Values :
        (Tracked(p, v) /\ NotCached(p, v))
            ~> ( \/ Agree(p, v)
                 \/ ~ Tracked(p, v)
                 \/ (ev.op = "poll" /\ ev.outcome = "push_failed" /\ ev.name = p) )

\* C20: when the push of a changed value to the node of p fails in a cycle,
\* the value stored for p stays as it was, so that p still counts as changed,
\* and the update thread goes on in the same cycle with the properties after
\* p, which it pushes and stores when they have changed.
C20_PushFailureIsIsolated ==
    [][ (ev'.op = "poll" /\ ev'.outcome = "push_failed") =>
            /\ property_values' = property_values
            /\ nodes' = nodes
            /\ \E i \in PollerIds :
                  /\ pollers[i].pc = "iter"
                  /\ Head(pollers[i].todo) = ev'.name
                  /\ pollers'[i].todo = Tail(pollers[i].todo)
                  /\ pollers'[i].pc = IF pollers'[i].todo = << >> THEN "wait" ELSE "iter"
                  /\ \A j \in PollerIds \ {i} : pollers'[j] = pollers[j]
            /\ dev' = dev
            /\ HasChanged(ev'.name) ]_vars

\* a cycle in which the push for power failed and the push for temperature,
\* the property after it, went through
C20_Witness ==
    /\ ev.op = "poll"
    /\ ev.outcome = "pushed"
    /\ ev.name = "temperature"
    /\ property_values["temperature"] = dev["temperature"]
    /\ "power" \in DOMAIN property_values
    /\ "power" \in DOMAIN dev
    /\ property_values["power"] # dev["power"]
    /\ \E i \in PollerIds : pollers[i].pc = "wait" /\ lock = ByPoller(i)

\* C21: when the registration of a public callable raises while start_server
\* builds the nodes, start_server does not end with that error, no node is made
\* for that callable, and every other public callable gets its node, whether
\* it comes before or after the failing one in dir(); the variable nodes are
\* built as well.
C21_RegistrationFailureIsIsolated ==
    [][ (ev'.op = "start" /\ ev'.transport \in {"started", "failed"} /\ opaque # {}) =>
            /\ ev'.outcome \in {"returned", "AttributeError", "TransportError"}
            /\ ev'.outcome = "AttributeError" => ev'.transport = "started"
            /\ \A name \in opaque : name \notin method_nodes'
            /\ \A name \in PublicCallables \ opaque : name \in method_nodes'
            /\ DOMAIN nodes' = ExpectedVariableNodes ]_vars

\* a start in which the registration of reset raised and set_temperature,
\* which comes after it, was registered
C21_Witness ==
    /\ AfterStart
    /\ opaque = {"reset"}
    /\ method_nodes = {"set_temperature"}

\* C22: when the device callable that a method wrapper invoked raises, the
\* transport gets the exception and no result list, device_lock is free
\* afterwards, and the adapter, its nodes and its update threads are as they
\* were before.
C22_CallFailurePropagates ==
    [][ (ev'.op = "call" /\ ev'.outcome \in {"raised", "TypeError"}) =>
            /\ ev'.result = << >>
            /\ lock' = Free
            /\ call' = NoCall
            /\ running' = running
            /\ bridgeVars' = bridgeVars
            /\ pollers' = pollers ]_vars

\* the callable raised while the adapter runs with its update thread alive
C22_Witness ==
    /\ ev.op = "call"
    /\ ev.outcome = "raised"
    /\ running
    /\ lock = Free
    /\ update_thread \in AlivePollers

\* C23: stop_server does not clear the node map and the value cache and does
\* not set the adapter to not running while a device callable invoked by a
\* method wrapper is still running or an update thread is still alive.
C23_StopWaitsForCallAndPoller ==
    [][ (ev'.op = "stop" /\ ev'.outcome = "returned") =>
            /\ call.state = "idle"
            /\ AlivePollers = {} ]_vars

\* C24: at most one update thread is alive.
C24_AtMostOnePoller ==
    Cardinality(AlivePollers) <= 1

====
